---------------------------- MODULE Spec2Model ----------------------------
(***************************************************************************)
(* Verification model of the Spotify clients of this repository:           *)
(*   src/app2.py              audio-features front end (client credentials)*)
(*   src/app.py               metadata front end (authorization code)      *)
(*   src/spotify_metadata.py  SpotifyMetadataFetcher                       *)
(* Each component has its own specification over the shared variables; the *)
(* variables of the other components stay at their idle values.            *)
(***************************************************************************)
EXTENDS Integers, Sequences, FiniteSets, TLC

VARIABLES
    \* ---- the playlist-tracks server seen by get_playlist_tracks
    srv_sizes,      \* srv_sizes[p]: number of items of page p of the chain
    srv_tail,       \* the "next" field of the last page of the chain
    \* ---- get_playlist_tracks (src/app2.py:71-88)
    url,            \* <<>> is None, <<u>> is the URL u
    all_tracks,     \* items accumulated so far
    page_requests,  \* every GET issued, in order
    last_next,      \* "next" as carried by the latest successful response
    page_outcomes,  \* history: the outcome of every GET, in order
    pt_pc,          \* "loop" | "returned"
    pt_result,      \* <<>> is None, <<list>> is the returned list
    \* ---- playlist tab of app2.py from line 207 on, and
    \*      get_audio_features_for_tracks (src/app2.py:91-112)
    valid_tracks,   \* the playlist items that have a track with an id
    bi,             \* the loop variable i of range(0, len(track_ids), 100)
    all_features,   \* features accumulated so far
    batch_requests, \* the ID list of every bulk GET issued, in order
    batch_responses,\* history: what came back for every bulk GET
    af_pc,          \* "idle" | "call" | "loop" | "reported" | "raised"
    rows,           \* the rows of df_playlist
    \* ---- extract_id (src/app.py:55-67, src/app2.py:59-68)
    ex_app,         \* whose extract_id is called: "app" | "app2" | "fetcher"
    ex_link,        \* spotify_link, a sequence of characters
    ex_kind,        \* type
    ex_pc,          \* "idle" | "call" | "returned" | "raised"
    ex_result,      \* <<>> is None, <<id>> is the returned ID
    \* ---- authentication of the three clients
    session_token,  \* app.py: st.session_state.token
    query_code,     \* app.py: st.query_params['code'], <<>> when absent
    creds,          \* app.py: client_id and client_secret are both filled in
    rerun_pending,  \* app.py: st.rerun() was called, the script runs again
    fetcher_pc,     \* SpotifyMetadataFetcher: "idle" | "new" | "ready" | "raised"
    fetcher_token,  \* SpotifyMetadataFetcher: self.token
    last_gets,      \* the resource GETs sent by the latest step
    auth_status,    \* history, per client: "none" | "failed" | "ok" | "logged_out"
    issued,         \* history, per client: the tokens the token endpoint gave it
    last_post,      \* app.py: the code the latest step sent to the token endpoint
    failed_codes,   \* history, app.py: the codes whose exchange failed in this session
    \* ---- one call of SpotifyMetadataFetcher.get_track / get_album /
    \*      get_artist / get_playlist (src/spotify_metadata.py:56-207)
    fm_kind,        \* the method: "track" | "album" | "artist" | "playlist"
    fm_input,       \* the argument <kind>_url_or_id, a sequence of characters
    fm_srv_items,   \* server: every item of the collection, in order
    fm_entity,      \* server: the JSON body it answers a resource GET with
    fm_pc,          \* "idle" | "call" | "returned" | "raised"
    fm_request,     \* <<>>, or <<id>> for the GET /v1/<kind>s/<id> sent
    fm_outcome,     \* history: what the GET met, "none" before it
    fm_record,      \* <<>> is no return value, <<r>> is the returned dict
    \* ---- one call of a single-resource fetch (src/app.py:70-127,
    \*      src/app2.py:34-56)
    so_fn,          \* the function called, "<file>.<name>"
    so_token,       \* the argument token
    so_id,          \* the argument <kind>_id, 0 for get_user_profile
    so_pc,          \* "idle", "call", "returned" or "raised"
    so_requests,    \* every GET the call sent, in order
    so_outcome,     \* history: what the GET met, "none" before it
    so_result,      \* <<>> is None, <<json>> is the returned body
    \* ---- one call of SpotifyMetadataFetcher.save_to_csv
    \*      (src/spotify_metadata.py:209-229)
    csv_filename,   \* the argument filename, a sequence of characters
    csv_tracks,     \* the key 'tracks' of the argument data
    csv_include,    \* the argument include_tracks
    csv_pc,         \* "idle", "call" or "returned"
    csv_writes,     \* every file written, in order: its name and its rows
    \* ---- the playlist tab of app2.py up to line 206 (src/app2.py:195-206)
    srv_bad,        \* server: per playlist item "ok", "no_track" or "no_id"
    tab_pc,         \* "idle", "run", "lookup" or "done"
    \* ---- Streamlit output shared by the front ends
    messages        \* st.error / st.info / st.success calls, in order

pagesVars == <<srv_sizes, srv_tail, url, all_tracks, page_requests, last_next,
               page_outcomes, pt_pc, pt_result>>

batchVars == <<valid_tracks, bi, all_features, batch_requests,
               batch_responses, af_pc, rows>>

extractVars == <<ex_app, ex_link, ex_kind, ex_pc, ex_result>>

authVars == <<session_token, query_code, creds, rerun_pending, fetcher_pc,
              fetcher_token, last_gets, auth_status, issued, last_post,
              failed_codes>>

fmVars == <<fm_kind, fm_input, fm_srv_items, fm_entity, fm_pc, fm_request,
            fm_outcome, fm_record>>

soVars == <<so_fn, so_token, so_id, so_pc, so_requests, so_outcome, so_result>>

csvVars == <<csv_filename, csv_tracks, csv_include, csv_pc, csv_writes>>

tabVars == <<srv_bad, tab_pc>>

\* The variables of the components that have a single caller.
moreVars == <<fmVars, soVars, csvVars, tabVars>>

vars == <<pagesVars, batchVars, extractVars, authVars, moreVars, messages>>

(***************************************************************************)
(* Bounds of the model.                                                    *)
(***************************************************************************)
MaxPages == 3
MaxRequests == 5
MaxIds == 250
MaxNullIdx == 1
MaxParts == 5
MaxTokens == 2
MaxCodes == 2

(***************************************************************************)
(* Python helpers.                                                         *)
(***************************************************************************)
\* Optional values: <<>> is None, <<v>> is the value v.
None == <<>>

Some(v) == <<v>>

IsSome(x) == x # None

\* Python truthiness of an optional URL / list (None and empty are falsy).
Truthy(x) == x # <<>>

\* One Streamlit message.
Msg(level, text, n) == [level |-> level, text |-> text, n |-> n]

(***************************************************************************)
(* The playlist-tracks collection endpoint.  What the client can reach     *)
(* from the first page is a chain of pages 1..Len(srv_sizes); every page   *)
(* but the last links to its successor, and the last one carries srv_tail: *)
(* no "next" key, "next": null, or a link back into the chain (a cycle).   *)
(***************************************************************************)
NumPages == Len(srv_sizes)

\* Page URLs: the page they address and the query string they carry.
PageUrl(p, query) == [page |-> p, query |-> query]

\* A "next" field of a response body.
NextAbsent == [kind |-> "absent", to |-> 0]

NextNull == [kind |-> "null", to |-> 0]

NextLink(p) == [kind |-> "link", to |-> p]

\* Line 79: the page size the client asks for; no page holds more items.
PageLimit == 100

\* Page sizes the server may answer with: empty, one item, partial, full.
PageSizes == {0, 1, 37, PageLimit}

\* The items of page p, in server order; item k of page p is <<p, k>>.
PageItems(p) == [k \in 1..srv_sizes[p] |-> <<p, k>>]

\* The "next" field of page p.
PageNext(p) == IF p < NumPages THEN NextLink(p + 1) ELSE srv_tail

\* The next link as the server writes it: it already encodes offset and limit.
ServerNextUrl(p) == PageUrl(p, <<"offset", "limit">>)

\* Mutant: the next link is never followed.
GetNext_IgnoresLink(nx) == None

\* playlist_data.get("next"): None when the key is absent or null.
GetNext(nx) == IF nx.kind = "link" THEN Some(ServerNextUrl(nx.to)) ELSE None

\* The chain is finite when its last page has no next link.
FiniteChain == srv_tail.kind # "link"

(***************************************************************************)
(* get_playlist_tracks (src/app2.py:71-88).                                *)
(***************************************************************************)
\* Line 72: the first URL carries no query string.
StartUrl == PageUrl(1, <<>>)

\* Line 79: params passed to requests.get on every iteration.
PageParams == <<"limit">>

\* requests.get(url, params=...) appends params to the query of url.
SentUrl(u, params) == PageUrl(u.page, u.query \o params)

\* Outcomes of one GET: success, or an exception raised by get() /
\* raise_for_status() / json(), all caught by "except Exception".
PageOutcomes == {"ok", "transport_error", "http_error"}

\* Mutant: the except branch hands back what was gathered so far.
PageFailed_ReturnsPartial ==
    /\ messages' = Append(messages, Msg("error", "Error fetching playlist tracks", 0))
    /\ pt_result' = Some(all_tracks)
    /\ pt_pc' = "returned"
    /\ UNCHANGED <<url, all_tracks, last_next>>

\* Lines 84-86: the except branch.
PageFailed ==
    /\ messages' = Append(messages, Msg("error", "Error fetching playlist tracks", 0))
    /\ pt_result' = None
    /\ pt_pc' = "returned"
    /\ UNCHANGED <<url, all_tracks, last_next>>

\* Mutant: the new page is put in front of the accumulated items.
PageSucceeded_Prepends ==
    LET p == url[1].page
        tracks == PageItems(p) \o all_tracks
        nxt == GetNext(PageNext(p))
    IN /\ all_tracks' = tracks
       /\ url' = nxt
       /\ last_next' = Some(PageNext(p))
       /\ IF Truthy(nxt)
             THEN UNCHANGED <<pt_pc, pt_result>>
             ELSE pt_pc' = "returned" /\ pt_result' = Some(tracks)
       /\ UNCHANGED messages

\* Lines 80-83, then the loop test of line 77 and the return of line 88.
PageSucceeded ==
    LET p == url[1].page
        tracks == all_tracks \o PageItems(p)
        nxt == GetNext(PageNext(p))
    IN /\ all_tracks' = tracks
       /\ url' = nxt
       /\ last_next' = Some(PageNext(p))
       /\ IF Truthy(nxt)
             THEN UNCHANGED <<pt_pc, pt_result>>
             ELSE pt_pc' = "returned" /\ pt_result' = Some(tracks)
       /\ UNCHANGED messages

\* One iteration of the while loop: one GET and the handling of its outcome.
FetchPage ==
    /\ pt_pc = "loop"
    /\ Truthy(url)
    /\ Len(page_requests) < MaxRequests
    /\ page_requests' = Append(page_requests,
                               [url |-> url[1], params |-> PageParams,
                                sent |-> SentUrl(url[1], PageParams)])
    /\ \E outcome \in PageOutcomes :
          /\ page_outcomes' = Append(page_outcomes, outcome)
          /\ IF outcome = "ok" THEN PageSucceeded ELSE PageFailed
    /\ UNCHANGED <<srv_sizes, srv_tail>>
    /\ UNCHANGED <<batchVars, extractVars, authVars, moreVars>>

\* The component is not running.
IdlePages ==
    /\ srv_sizes = <<>>
    /\ srv_tail = NextAbsent
    /\ url = None
    /\ all_tracks = <<>>
    /\ page_requests = <<>>
    /\ last_next = None
    /\ page_outcomes = <<>>
    /\ pt_pc = "idle"
    /\ pt_result = None

IdleBatch ==
    /\ valid_tracks = <<>>
    /\ bi = 0
    /\ all_features = <<>>
    /\ batch_requests = <<>>
    /\ batch_responses = <<>>
    /\ af_pc = "idle"
    /\ rows = <<>>

IdleExtract ==
    /\ ex_app = "app"
    /\ ex_link = <<>>
    /\ ex_kind = "track"
    /\ ex_pc = "idle"
    /\ ex_result = None

Clients == {"app", "app2", "fetcher"}

IdleAuth ==
    /\ session_token = None
    /\ query_code = None
    /\ creds = FALSE
    /\ rerun_pending = FALSE
    /\ fetcher_pc = "idle"
    /\ fetcher_token = None
    /\ last_gets = {}
    /\ auth_status = [c \in Clients |-> "none"]
    /\ issued = [c \in Clients |-> {}]
    /\ last_post = None
    /\ failed_codes = {}

IdleFm ==
    /\ fm_kind = "track"
    /\ fm_input = <<>>
    /\ fm_srv_items = <<>>
    /\ fm_entity = <<>>
    /\ fm_pc = "idle"
    /\ fm_request = None
    /\ fm_outcome = "none"
    /\ fm_record = None

IdleSo ==
    /\ so_fn = "app.get_user_profile"
    /\ so_token = 0
    /\ so_id = 0
    /\ so_pc = "idle"
    /\ so_requests = <<>>
    /\ so_outcome = "none"
    /\ so_result = None

IdleCsv ==
    /\ csv_filename = <<>>
    /\ csv_tracks = [st |-> "absent", v |-> <<>>]
    /\ csv_include = TRUE
    /\ csv_pc = "idle"
    /\ csv_writes = <<>>

IdleTab ==
    /\ srv_bad = <<>>
    /\ tab_pc = "idle"

IdleMore == IdleFm /\ IdleSo /\ IdleCsv /\ IdleTab

InitPages ==
    /\ \E n \in 1..MaxPages :
          /\ srv_sizes \in [1..n -> PageSizes]
          /\ srv_tail \in {NextAbsent, NextNull} \cup {NextLink(p) : p \in 1..n}
    /\ url = Some(StartUrl)
    /\ all_tracks = <<>>
    /\ page_requests = <<>>
    /\ last_next = None
    /\ page_outcomes = <<>>
    /\ pt_pc = "loop"
    /\ pt_result = None
    /\ messages = <<>>
    /\ IdleBatch
    /\ IdleExtract
    /\ IdleAuth
    /\ IdleMore

NextPages == FetchPage

SpecPages == InitPages /\ [][NextPages]_vars

\* The loop is sequential blocking code: an iteration that can run does run.
FairSpecPages == SpecPages /\ WF_vars(NextPages)

(***************************************************************************)
(* Claims about get_playlist_tracks.                                       *)
(***************************************************************************)
RECURSIVE ConcatPages(_)
\* The items of pages p..NumPages in server order.
ConcatPages(p) ==
    IF p > NumPages THEN <<>> ELSE PageItems(p) \o ConcatPages(p + 1)

NoPageFailed == \A i \in 1..Len(page_outcomes) : page_outcomes[i] = "ok"

ReturnedList == pt_pc = "returned" /\ IsSome(pt_result)

\* C1: over a finite chain of pages in which no request failed, the returned
\* list is exactly the concatenation of the pages' items in server order (so
\* nothing is reordered, dropped or duplicated) and exactly one GET was issued
\* per page, page 1 first.
C1_AllPagesInOrder ==
    (ReturnedList /\ FiniteChain /\ NoPageFailed) =>
        /\ pt_result[1] = ConcatPages(1)
        /\ Len(page_requests) = NumPages
        /\ \A i \in 1..NumPages : page_requests[i].url.page = i
        /\ \A i, j \in 1..Len(pt_result[1]) :
              pt_result[1][i] = pt_result[1][j] => i = j

\* C1 witness: pages of 100, 100 and 37 items gave 237 items after 3 GETs.
C1_Witness ==
    /\ ReturnedList
    /\ srv_sizes = <<100, 100, 37>>
    /\ Len(pt_result[1]) = 237
    /\ Len(page_requests) = 3

\* C2: a failed page request, on whatever page, is the last request issued,
\* and the operation returns None: the items gathered from the earlier pages
\* are not handed to the caller.
C2_FailureDiscardsAll ==
    \A i \in 1..Len(page_outcomes) :
        page_outcomes[i] # "ok" =>
            /\ i = Len(page_requests)
            /\ pt_pc = "returned"
            /\ pt_result = None

\* C2 witness: page 2 failed after page 1 had delivered 100 items.
C2_Witness ==
    /\ Len(page_outcomes) = 2
    /\ page_outcomes[1] = "ok"
    /\ page_outcomes[2] = "transport_error"
    /\ Len(all_tracks) = 100
    /\ pt_result = None
    /\ pt_pc = "returned"

\* C7 (as claimed): every request after the first is issued against the next
\* link exactly as the server gave it, with no paging parameter added.
C7_NextLinkSentAsGiven ==
    \A i \in 2..Len(page_requests) :
        /\ page_requests[i].params = <<>>
        /\ page_requests[i].sent = page_requests[i].url

\* C8: the accumulated list is returned only when the latest response carried
\* no next link (absent or null); hence never when the links form a cycle; and
\* over a finite chain the traversal always comes to its return.
C8_TerminatesOnlyOnNullNext ==
    /\ [](ReturnedList =>
            /\ IsSome(last_next)
            /\ last_next[1].kind \in {"absent", "null"}
            /\ FiniteChain)
    /\ [](IsSome(last_next) /\ last_next[1].kind = "link" /\ NoPageFailed
            => pt_pc = "loop" /\ Truthy(url))
    /\ (FiniteChain ~> pt_pc = "returned")

\* C8 witness: on a cycle the loop is still running after revisiting pages.
C8_Witness ==
    /\ ~FiniteChain
    /\ NoPageFailed
    /\ Len(page_requests) > NumPages
    /\ pt_pc = "loop"

(***************************************************************************)
(* The playlist tab of app2.py from line 207 on: valid_tracks is what the  *)
(* filter of lines 199-202 kept.  Track k of the playlist has id k, and    *)
(* its name is tagged with the same k, so a row that pairs a feature with  *)
(* another track's name shows.                                             *)
(***************************************************************************)
Track(k) == [id |-> k, name |-> k]

\* A feature record of the bulk endpoint, and the null it returns for an ID
\* it cannot resolve.
Feature(id) == [null |-> FALSE, id |-> id]

NullFeature == [null |-> TRUE, id |-> 0]

\* Line 209.
track_ids == [k \in 1..Len(valid_tracks) |-> valid_tracks[k].id]

\* Line 93.
batch_size == 100

Min(a, b) == IF a < b THEN a ELSE b

\* Mutant: the slice runs one element too far.
Batch_OneTooMany(i) == SubSeq(track_ids, i + 1, Min(i + batch_size + 1, Len(track_ids)))

\* Line 97: track_ids[i:i + batch_size] (i counts from 0).
Batch(i) == SubSeq(track_ids, i + 1, Min(i + batch_size, Len(track_ids)))

\* The body of a 2xx answer to a bulk GET for ids: one entry per requested
\* ID, in request order, null at the positions in nulls.
FeaturesBody(ids, nulls) ==
    [j \in 1..Len(ids) |-> IF j \in nulls THEN NullFeature ELSE Feature(ids[j])]

\* What may come back for a bulk GET for ids: an exception (transport error,
\* non-2xx status), a body without "audio_features" (read as [] by line 106),
\* or a feature list with nulls among its first MaxNullIdx positions.
BatchResponses(ids) ==
    {[outcome |-> o, features |-> <<>>] : o \in {"transport_error", "http_error", "no_key"}}
    \cup {[outcome |-> "ok", features |-> FeaturesBody(ids, nulls)] :
             nulls \in SUBSET (1..Min(MaxNullIdx, Len(ids)))}

BatchRaised(resp) == resp.outcome \in {"transport_error", "http_error"}

IsNotNone(f) == ~f.null

\* Line 214: [f for f in audio_features if f is not None].
FilterNotNone(fs) == SelectSeq(fs, IsNotNone)

\* Lines 217-221: feature i takes the name of valid_tracks[i].
AddTrackNames(fs) ==
    [i \in 1..Len(fs) |->
        IF i <= Len(valid_tracks)
           THEN [id |-> fs[i].id, has_name |-> TRUE, track_name |-> valid_tracks[i].name]
           ELSE [id |-> fs[i].id, has_name |-> FALSE, track_name |-> 0]]

\* Lines 212-240 of the playlist tab, run on what
\* get_audio_features_for_tracks returned.
Report(audio_features, msgs) ==
    IF Truthy(audio_features)
       THEN LET kept == FilterNotNone(audio_features)
            IN IF kept = <<>>
                  \* df_playlist has no column: df_playlist[cols] raises KeyError
                  THEN /\ rows' = <<>>
                       /\ af_pc' = "raised"
                       /\ messages' = msgs
                  ELSE /\ rows' = AddTrackNames(kept)
                       /\ af_pc' = "reported"
                       /\ messages' = Append(msgs,
                              Msg("success", "Retrieved audio features for n tracks", Len(kept)))
       ELSE /\ rows' = <<>>
            /\ af_pc' = "reported"
            /\ messages' = Append(msgs,
                   Msg("error", "Could not fetch audio features for the tracks", 0))

\* Lines 207-210 and 92-95: the call, up to the first loop test.
CallGetAudioFeatures ==
    /\ af_pc = "call"
    /\ all_features' = <<>>
    /\ bi' = 0
    /\ LET msgs == Append(messages, Msg("info", "Found n tracks in playlist", Len(valid_tracks)))
       IN IF Len(track_ids) > 0
             THEN /\ af_pc' = "loop"
                  /\ messages' = msgs
                  /\ UNCHANGED rows
             ELSE Report(<<>>, msgs)
    /\ UNCHANGED <<valid_tracks, batch_requests, batch_responses>>
    /\ UNCHANGED <<pagesVars, extractVars, authVars, moreVars>>

\* Mutant: a failed chunk ends the lookup, as a failed page ends the paging.
BatchStep_AbortsOnFailure(resp) ==
    LET features == IF BatchRaised(resp) THEN all_features
                    ELSE all_features \o resp.features
        msgs == IF BatchRaised(resp)
                   THEN Append(messages, Msg("error", "Error fetching audio features for batch", 0))
                   ELSE messages
    IN /\ all_features' = features
       /\ bi' = bi + batch_size
       /\ IF bi + batch_size < Len(track_ids) /\ ~BatchRaised(resp)
             THEN /\ messages' = msgs
                  /\ UNCHANGED <<af_pc, rows>>
             ELSE Report(features, msgs)

\* Lines 102-110 for the answer resp, the next loop test and, after the last
\* chunk, the return of line 112 and the caller's lines 212-240.
BatchStep(resp) ==
    LET features == IF BatchRaised(resp) THEN all_features
                    ELSE all_features \o resp.features
        msgs == IF BatchRaised(resp)
                   THEN Append(messages, Msg("error", "Error fetching audio features for batch", 0))
                   ELSE messages
    IN /\ all_features' = features
       /\ bi' = bi + batch_size
       /\ IF bi + batch_size < Len(track_ids)
             THEN /\ messages' = msgs
                  /\ UNCHANGED <<af_pc, rows>>
             ELSE Report(features, msgs)

\* One iteration of the for loop: one bulk GET and the handling of its answer.
FetchBatch ==
    /\ af_pc = "loop"
    /\ bi < Len(track_ids)
    /\ batch_requests' = Append(batch_requests, Batch(bi))
    /\ \E resp \in BatchResponses(Batch(bi)) :
          /\ batch_responses' = Append(batch_responses, resp)
          /\ BatchStep(resp)
    /\ UNCHANGED valid_tracks
    /\ UNCHANGED <<pagesVars, extractVars, authVars, moreVars>>

InitBatch ==
    /\ \E n \in 0..MaxIds : valid_tracks = [k \in 1..n |-> Track(k)]
    /\ bi = 0
    /\ all_features = <<>>
    /\ batch_requests = <<>>
    /\ batch_responses = <<>>
    /\ af_pc = "call"
    /\ rows = <<>>
    /\ messages = <<>>
    /\ IdlePages
    /\ IdleExtract
    /\ IdleAuth
    /\ IdleMore

NextBatch == CallGetAudioFeatures \/ FetchBatch

SpecBatch == InitBatch /\ [][NextBatch]_vars

(***************************************************************************)
(* Claims about get_audio_features_for_tracks and the playlist tab.        *)
(***************************************************************************)
LookupDone == af_pc \in {"reported", "raised"}

\* ceil(n / batch_size)
ChunkCount(n) == (n + batch_size - 1) \div batch_size

RECURSIVE SucceededFeatures(_)
\* The feature lists of the chunks k.. that did not raise, in chunk order.
SucceededFeatures(k) ==
    IF k > Len(batch_responses) THEN <<>>
    ELSE (IF BatchRaised(batch_responses[k]) THEN <<>>
          ELSE batch_responses[k].features) \o SucceededFeatures(k + 1)

RECURSIVE FailedIdCount(_)
\* The number of IDs carried by the chunks k.. that raised.
FailedIdCount(k) ==
    IF k > Len(batch_responses) THEN 0
    ELSE (IF BatchRaised(batch_responses[k]) THEN Len(batch_requests[k]) ELSE 0)
         + FailedIdCount(k + 1)

\* C3 (as claimed): every output row pairs a feature with the name of the
\* track whose ID the feature was fetched for, whatever entries were null and
\* whatever batches failed.
C3_RowsMatchTracks ==
    af_pc = "reported" =>
        \A i \in 1..Len(rows) :
            /\ rows[i].has_name
            /\ \E k \in 1..Len(valid_tracks) :
                  /\ valid_tracks[k].id = rows[i].id
                  /\ valid_tracks[k].name = rows[i].track_name

\* C4: the bulk GETs carry consecutive chunks of the ID list: 1 to 100 IDs
\* each, 100 in every chunk but the last, chunk k holding the IDs from
\* position 100(k-1)+1 on, and once the lookup is over the chunks cover the
\* whole list in ceil(n/100) requests (none for 0 IDs).
C4_ConsecutiveChunks ==
    LET ids == track_ids
        reqs == batch_requests
    IN /\ \A k \in 1..Len(reqs) :
             /\ Len(reqs[k]) >= 1
             /\ Len(reqs[k]) <= batch_size
             /\ k < Len(reqs) => Len(reqs[k]) = batch_size
             /\ (k - 1) * batch_size + Len(reqs[k]) <= Len(ids)
             /\ reqs[k] = SubSeq(ids, (k - 1) * batch_size + 1,
                                 (k - 1) * batch_size + Len(reqs[k]))
       /\ LookupDone =>
             /\ Len(reqs) = ChunkCount(Len(ids))
             /\ Len(reqs) > 0 =>
                   (Len(reqs) - 1) * batch_size + Len(reqs[Len(reqs)]) = Len(ids)

\* C4 witness: 250 IDs went out as chunks of 100, 100 and 50.
C4_Witness ==
    /\ LookupDone
    /\ Len(track_ids) = 250
    /\ Len(batch_requests) = 3
    /\ Len(batch_requests[1]) = 100
    /\ Len(batch_requests[2]) = 100
    /\ Len(batch_requests[3]) = 50

\* C5: whatever chunks fail, every chunk is requested once, in order, and the
\* accumulated list is the concatenation, in chunk order, of the feature lists
\* of the chunks that did not fail.
C5_FailedChunkSkippedOnly ==
    LET ids == track_ids
    IN /\ Len(batch_responses) = Len(batch_requests)
       /\ all_features = SucceededFeatures(1)
       /\ \A k \in 1..Len(batch_requests) :
             /\ batch_requests[k] # <<>>
             /\ batch_requests[k][1] = ids[(k - 1) * batch_size + 1]
       /\ af_pc = "loop" => Len(batch_requests) < ChunkCount(Len(ids))
       /\ LookupDone => Len(batch_requests) = ChunkCount(Len(ids))

\* C5 witness: of three chunks the second failed and the other two delivered.
C5_Witness ==
    /\ LookupDone
    /\ Len(batch_responses) = 3
    /\ batch_responses[1].outcome = "ok"
    /\ BatchRaised(batch_responses[2])
    /\ batch_responses[3].outcome = "ok"
    /\ Len(all_features) = 150

\* C6 (as claimed): when chunks failed, the caller is told how many IDs the
\* failed chunks held (read generously: some message of the run carries that
\* number).
C6_PartialFailureCountReported ==
    (af_pc = "reported" /\ FailedIdCount(1) > 0) =>
        \E i \in 1..Len(messages) : messages[i].n = FailedIdCount(1)

(***************************************************************************)
(* extract_id.  Links are sequences of one-character strings; the regular  *)
(* expression  open\.spotify\.com\/<kind>\/([a-zA-Z0-9]+)  is a literal    *)
(* followed by a greedy run of the class, and re.search takes the leftmost *)
(* position at which it matches.                                           *)
(***************************************************************************)
Kinds == {"track", "album", "artist", "playlist"}

\* [a-zA-Z0-9]
AlnumChars ==
    {"a", "b", "c", "d", "e", "f", "g", "h", "i", "j", "k", "l", "m",
     "n", "o", "p", "q", "r", "s", "t", "u", "v", "w", "x", "y", "z",
     "A", "B", "C", "D", "E", "F", "G", "H", "I", "J", "K", "L", "M",
     "N", "O", "P", "Q", "R", "S", "T", "U", "V", "W", "X", "Y", "Z",
     "0", "1", "2", "3", "4", "5", "6", "7", "8", "9"}

\* open\.spotify\.com
HostChars ==
    <<"o", "p", "e", "n", ".", "s", "p", "o", "t", "i", "f", "y", ".", "c", "o", "m">>

KindWord(kind) ==
    CASE kind = "track" -> <<"t", "r", "a", "c", "k">>
      [] kind = "album" -> <<"a", "l", "b", "u", "m">>
      [] kind = "artist" -> <<"a", "r", "t", "i", "s", "t">>
      [] kind = "playlist" -> <<"p", "l", "a", "y", "l", "i", "s", "t">>
      [] kind = "episode" -> <<"e", "p", "i", "s", "o", "d", "e">>

\* \/<kind>\/
KindSegment(kind) == <<"/">> \o KindWord(kind) \o <<"/">>

\* The literal part of the pattern of a kind.
PatternLiteral(kind) == HostChars \o KindSegment(kind)

\* lit occurs in s at position i.
LiteralAt(s, i, lit) ==
    /\ i + Len(lit) - 1 <= Len(s)
    /\ SubSeq(s, i, i + Len(lit) - 1) = lit

\* The pattern matches s at position i: the literal, then one class character.
MatchesAt(s, i, lit) ==
    /\ LiteralAt(s, i, lit)
    /\ i + Len(lit) <= Len(s)
    /\ s[i + Len(lit)] \in AlnumChars

\* Mutant: the group takes one character only ([a-zA-Z0-9] without the +).
Group_OneChar(s, from) == SubSeq(s, from, from)

\* ([a-zA-Z0-9]+) from position from on: the longest run of class characters.
Group(s, from) ==
    LET stops == {j \in from..Len(s) : s[j] \notin AlnumChars}
        last == IF stops = {} THEN Len(s)
                ELSE (CHOOSE j \in stops : \A m \in stops : j <= m) - 1
    IN SubSeq(s, from, last)

\* re.search(pattern, s) followed by match.group(1); None when no match.
Search(lit, s) ==
    LET starts == {i \in 1..Len(s) : MatchesAt(s, i, lit)}
    IN IF starts = {} THEN None
       ELSE LET first == CHOOSE i \in starts : \A m \in starts : i <= m
            IN Some(Group(s, first + Len(lit)))

\* What a call of extract_id does: raise, or return with or without st.error.
Extracted(raised, result) == [raised |-> raised, result |-> result]

\* src/app.py:55-67: patterns.get(type, patterns["track"]).
ExtractIdApp(link, kind) ==
    LET lit == IF kind \in Kinds THEN PatternLiteral(kind) ELSE PatternLiteral("track")
    IN Extracted(FALSE, Search(lit, link))

\* src/app2.py:59-68: if type == "track" ... elif type == "playlist" ...;
\* for any other type the name match is unbound at line 64.
ExtractIdApp2(link, kind) ==
    IF kind \in {"track", "playlist"}
       THEN Extracted(FALSE, Search(PatternLiteral(kind), link))
       ELSE Extracted(TRUE, None)

\* src/spotify_metadata.py:45-54: the patterns and the fallback of app.py,
\* match.group(1) if match else None, and no message.
ExtractIdFetcher(link, kind) ==
    LET lit == IF kind \in Kinds THEN PatternLiteral(kind) ELSE PatternLiteral("track")
    IN Extracted(FALSE, Search(lit, link))

\* The kinds extract_id is called with: src/app.py:189,233,275,311 and
\* src/app2.py:140,193.
CalledKinds(app) == IF app = "app" THEN Kinds ELSE {"track", "playlist"}

\* One call of extract_id, st.error of lines 66 / 67 included.
ExtractId ==
    /\ ex_pc = "call"
    /\ LET r == CASE ex_app = "app" -> ExtractIdApp(ex_link, ex_kind)
                  [] ex_app = "app2" -> ExtractIdApp2(ex_link, ex_kind)
                  [] ex_app = "fetcher" -> ExtractIdFetcher(ex_link, ex_kind)
       IN /\ ex_pc' = IF r.raised THEN "raised" ELSE "returned"
          /\ ex_result' = r.result
          /\ messages' = IF ex_app # "fetcher" /\ ~r.raised /\ r.result = None
                            THEN Append(messages, Msg("error", "Invalid Spotify link", 0))
                            ELSE messages
    /\ UNCHANGED <<ex_app, ex_link, ex_kind>>
    /\ UNCHANGED <<pagesVars, batchVars, authVars, moreVars>>

\* The links tried: up to MaxParts pieces, each the host with its slash, the
\* word of the requested kind, the word of another kind, a slash, two
\* alphanumeric characters or a query mark.
LinkParts == {"host/", "kind", "other", "/", "x7", "?"}

OtherKind(kind) ==
    CASE kind = "track" -> "album"
      [] kind = "album" -> "artist"
      [] kind = "artist" -> "playlist"
      [] kind = "playlist" -> "track"
      [] kind = "episode" -> "track"

PartChars(part, kind) ==
    CASE part = "host/" -> HostChars \o <<"/">>
      [] part = "kind" -> KindWord(kind)
      [] part = "other" -> KindWord(OtherKind(kind))
      [] part = "/" -> <<"/">>
      [] part = "x7" -> <<"x", "7">>
      [] part = "?" -> <<"?">>

RECURSIVE LinkOf(_, _)
LinkOf(parts, kind) ==
    IF parts = <<>> THEN <<>>
    ELSE PartChars(Head(parts), kind) \o LinkOf(Tail(parts), kind)

InitExtract ==
    /\ ex_app \in {"app", "app2"}
    /\ ex_kind \in CalledKinds(ex_app)
    /\ \E n \in 0..MaxParts : \E parts \in [1..n -> LinkParts] :
          ex_link = LinkOf(parts, ex_kind)
    /\ ex_pc = "call"
    /\ ex_result = None
    /\ messages = <<>>
    /\ IdlePages
    /\ IdleBatch
    /\ IdleAuth
    /\ IdleMore

NextExtract == ExtractId

SpecExtract == InitExtract /\ [][NextExtract]_vars

\* The kinds each extractor has a pattern or a branch for.
HandledKinds(app) == IF app = "app2" THEN {"track", "playlist"} ELSE Kinds

\* A kind none of the three extractors handles.
UnhandledKind == "episode"

\* Calls of the three extractors with a kind they do not handle; the links
\* are those of InitExtract, the other kind of "episode" being "track".
InitExtractAny ==
    /\ ex_app \in {"app", "app2", "fetcher"}
    /\ ex_kind \in (Kinds \cup {UnhandledKind}) \ HandledKinds(ex_app)
    /\ \E n \in 0..MaxParts : \E parts \in [1..n -> LinkParts] :
          ex_link = LinkOf(parts, ex_kind)
    /\ ex_pc = "call"
    /\ ex_result = None
    /\ messages = <<>>
    /\ IdlePages
    /\ IdleBatch
    /\ IdleAuth
    /\ IdleMore

SpecExtractAny == InitExtractAny /\ [][NextExtract]_vars

(***************************************************************************)
(* Claims about extract_id.                                                *)
(***************************************************************************)
\* lit occurs at position p of s and an alphanumeric character follows it.
IdStartsAfter(s, p, lit) ==
    /\ p >= 1
    /\ p + Len(lit) <= Len(s)
    /\ \A j \in 1..Len(lit) : s[p + j - 1] = lit[j]
    /\ s[p + Len(lit)] \in AlnumChars

\* s holds the characters of seg somewhere.
HasSegment(s, seg) ==
    \E p \in 1..Len(s) :
        /\ p + Len(seg) - 1 <= Len(s)
        /\ \A j \in 1..Len(seg) : s[p + j - 1] = seg[j]

TokenResponses ==
    {[outcome |-> "ok", token |-> t] : t \in 1..MaxTokens}
    \cup {[outcome |-> o, token |-> 0] :
             o \in {"transport_error", "http_error", "bad_json", "no_access_token"}}

\* src/app2.py:9-27: the token, or None from .get / from the except branch.
get_token(resp) == IF resp.outcome = "ok" THEN Some(resp.token) ELSE None

\* Mutant: the except branch hands back a placeholder instead of None.
get_token_from_code_Placeholder(resp) == Some(resp.token)

\* src/app.py:26-49: the token, or None from .get / from the except branch.
get_token_from_code(resp) == IF resp.outcome = "ok" THEN Some(resp.token) ELSE None

\* src/spotify_metadata.py:23-39: raise_for_status(), json() and
\* ["access_token"] raise on a failure; nothing catches them.
Authenticate(resp) ==
    IF resp.outcome = "ok"
       THEN [raised |-> FALSE, token |-> Some(resp.token)]
       ELSE [raised |-> TRUE, token |-> None]

\* A resource GET: who sends it, where, the token of its Bearer header, and
\* (history) how the sender's latest token exchange had gone.
Get(client, endpoint, token, status) ==
    [client |-> client, endpoint |-> endpoint, token |-> token, status |-> status]

\* The history of a client after a POST to the token endpoint.
AfterExchange(client, resp) ==
    /\ auth_status' = [auth_status EXCEPT
                          ![client] = IF resp.outcome = "ok" THEN "ok" ELSE "failed"]
    /\ issued' = [issued EXCEPT
                     ![client] = IF resp.outcome = "ok" THEN @ \cup {resp.token} ELSE @]

\* ---- src/app.py -----------------------------------------------------
TabButtons == {"track_btn", "album_btn", "artist_btn", "playlist_btn", "profile_btn"}

\* What makes the script run: a changed input, a clicked button, st.rerun().
AppEvents == {"input", "logout"} \cup TabButtons

EndpointOf(button) ==
    CASE button = "track_btn" -> "tracks"
      [] button = "album_btn" -> "albums"
      [] button = "artist_btn" -> "artists"
      [] button = "playlist_btn" -> "playlists"
      [] button = "profile_btn" -> "me"

\* The link typed into the tab whose button was clicked.
LinkStates == {"empty", "invalid", "valid"}

\* Mutant: the query parameters are not cleared after a successful exchange.
AppExchange_KeepsQuery ==
    \E resp \in TokenResponses :
        LET token == get_token_from_code(resp)
        IN /\ AfterExchange("app", resp)
           /\ last_gets' = {}
           /\ last_post' = query_code
           /\ failed_codes' = IF Truthy(token) THEN failed_codes
                               ELSE failed_codes \cup {query_code[1]}
           /\ IF Truthy(token)
                 THEN /\ session_token' = token
                      /\ query_code' = query_code
                      /\ rerun_pending' = TRUE
                      /\ messages' = <<Msg("success", "Authenticated", 0)>>
                 ELSE /\ rerun_pending' = FALSE
                      /\ messages' = <<Msg("error", "Error getting token", 0),
                                       Msg("info", "Please enter your credentials and login", 0)>>
                      /\ UNCHANGED <<session_token, query_code>>

\* Lines 151-158: the code of the query string is exchanged.
AppExchange ==
    \E resp \in TokenResponses :
        LET token == get_token_from_code(resp)
        IN /\ AfterExchange("app", resp)
           /\ last_gets' = {}
           /\ last_post' = query_code
           /\ failed_codes' = IF Truthy(token) THEN failed_codes
                               ELSE failed_codes \cup {query_code[1]}
           /\ IF Truthy(token)
                 THEN /\ session_token' = token
                      /\ query_code' = None
                      /\ rerun_pending' = TRUE
                      /\ messages' = <<Msg("success", "Authenticated", 0)>>
                 ELSE /\ rerun_pending' = FALSE
                      /\ messages' = <<Msg("error", "Error getting token", 0),
                                       Msg("info", "Please enter your credentials and login", 0)>>
                      /\ UNCHANGED <<session_token, query_code>>

\* Mutant: a failed fetch of a tab clears the token of the session.
AppNoExchange_FailedFetchClearsToken(cr, event) ==
    \* meOk, getOk: whether the GET of the sidebar / of the tab succeeds;
    \* link: the link typed into the tab; each drawn only where it is read.
    \E meOk \in (IF cr /\ IsSome(session_token) THEN BOOLEAN ELSE {TRUE}),
       link \in (IF IsSome(session_token) /\ event \in TabButtons \ {"profile_btn"}
                    THEN LinkStates ELSE {"empty"}) :
    \E getOk \in (IF IsSome(session_token) /\ event \in TabButtons
                        /\ (event = "profile_btn" \/ link = "valid")
                     THEN BOOLEAN ELSE {TRUE}) :
        LET sidebar == cr /\ IsSome(session_token)
            profile == IF sidebar
                          THEN {Get("app", "me", session_token, auth_status["app"])}
                          ELSE {}
            profileMsgs == IF sidebar /\ ~meOk
                              THEN <<Msg("error", "Error fetching user profile", 0)>>
                              ELSE <<>>
            clicked == IsSome(session_token) /\ event \in TabButtons
            fetches == clicked /\ (event = "profile_btn" \/ link = "valid")
            tabMsgs == IF clicked /\ event # "profile_btn" /\ link = "invalid"
                          THEN <<Msg("error", "Invalid Spotify link", 0)>>
                          ELSE IF fetches /\ ~getOk
                                  THEN <<Msg("error", "Error fetching", 0)>>
                                  ELSE IF IsSome(session_token) THEN <<>>
                                       ELSE <<Msg("info", "Please enter your credentials and login", 0)>>
        IN IF event = "logout"
              THEN /\ session_token' = None
                   /\ rerun_pending' = TRUE
                   /\ last_gets' = profile
                   /\ messages' = profileMsgs
                   /\ auth_status' = [auth_status EXCEPT !["app"] = "logged_out"]
                   /\ last_post' = None
                   /\ UNCHANGED <<query_code, issued, failed_codes>>
              ELSE /\ rerun_pending' = FALSE
                   /\ last_gets' = profile \cup
                         (IF fetches
                             THEN {Get("app", EndpointOf(event), session_token,
                                       auth_status["app"])}
                             ELSE {})
                   /\ messages' = profileMsgs \o tabMsgs
                   /\ last_post' = None
                   /\ session_token' = IF fetches /\ ~getOk THEN None ELSE session_token
                   /\ UNCHANGED <<query_code, auth_status, issued, failed_codes>>

\* Lines 160-176 and 179-387 of a run that exchanges no code.
AppNoExchange(cr, event) ==
    \* meOk, getOk: whether the GET of the sidebar / of the tab succeeds;
    \* link: the link typed into the tab; each drawn only where it is read.
    \E meOk \in (IF cr /\ IsSome(session_token) THEN BOOLEAN ELSE {TRUE}),
       link \in (IF IsSome(session_token) /\ event \in TabButtons \ {"profile_btn"}
                    THEN LinkStates ELSE {"empty"}) :
    \E getOk \in (IF IsSome(session_token) /\ event \in TabButtons
                        /\ (event = "profile_btn" \/ link = "valid")
                     THEN BOOLEAN ELSE {TRUE}) :
        LET sidebar == cr /\ IsSome(session_token)
            profile == IF sidebar
                          THEN {Get("app", "me", session_token, auth_status["app"])}
                          ELSE {}
            profileMsgs == IF sidebar /\ ~meOk
                              THEN <<Msg("error", "Error fetching user profile", 0)>>
                              ELSE <<>>
            clicked == IsSome(session_token) /\ event \in TabButtons
            fetches == clicked /\ (event = "profile_btn" \/ link = "valid")
            tabMsgs == IF clicked /\ event # "profile_btn" /\ link = "invalid"
                          THEN <<Msg("error", "Invalid Spotify link", 0)>>
                          ELSE IF fetches /\ ~getOk
                                  THEN <<Msg("error", "Error fetching", 0)>>
                                  ELSE IF IsSome(session_token) THEN <<>>
                                       ELSE <<Msg("info", "Please enter your credentials and login", 0)>>
        IN IF event = "logout"
              THEN /\ session_token' = None
                   /\ rerun_pending' = TRUE
                   /\ last_gets' = profile
                   /\ messages' = profileMsgs
                   /\ auth_status' = [auth_status EXCEPT !["app"] = "logged_out"]
                   /\ last_post' = None
                   /\ UNCHANGED <<query_code, issued, failed_codes>>
              ELSE /\ rerun_pending' = FALSE
                   /\ last_gets' = profile \cup
                         (IF fetches
                             THEN {Get("app", EndpointOf(event), session_token,
                                       auth_status["app"])}
                             ELSE {})
                   /\ messages' = profileMsgs \o tabMsgs
                   /\ last_post' = None
                   /\ UNCHANGED <<session_token, query_code, auth_status, issued,
                                  failed_codes>>

\* One run of the script of app.py, from the first line to the last or to
\* st.rerun().  A button can be clicked only if the run before rendered it.
AppRun ==
    /\ \E event \in AppEvents \cup {"rerun"} :
          /\ rerun_pending <=> event = "rerun"
          /\ event = "logout" => creds /\ IsSome(session_token)
          /\ event \in TabButtons => IsSome(session_token)
          /\ \E cr \in BOOLEAN :
                /\ event # "input" => cr = creds
                /\ creds' = cr
                /\ IF cr /\ IsSome(query_code) /\ ~Truthy(session_token)
                      THEN AppExchange
                      ELSE AppNoExchange(cr, event)
    /\ UNCHANGED <<fetcher_pc, fetcher_token>>
    /\ UNCHANGED <<pagesVars, batchVars, extractVars, moreVars>>

\* The page is loaded anew (so after Spotify's redirect to
\* http://localhost:8501/?code=...): a new session, its state initialised by
\* lines 130-131, its inputs empty.
AppPageLoad ==
    /\ ~rerun_pending
    /\ query_code' \in {None} \cup {Some(c) : c \in 1..MaxCodes}
    /\ session_token' = None
    /\ creds' = FALSE
    /\ rerun_pending' = FALSE
    /\ last_gets' = {}
    /\ auth_status' = [auth_status EXCEPT !["app"] = "none"]
    /\ messages' = <<Msg("info", "Please enter your credentials and login", 0)>>
    /\ last_post' = None
    /\ failed_codes' = {}
    /\ UNCHANGED <<issued, fetcher_pc, fetcher_token>>
    /\ UNCHANGED <<pagesVars, batchVars, extractVars, moreVars>>

\* ---- src/app2.py ----------------------------------------------------
\* src/app2.py:132-179 and 185-244: one click on the button of a tab.
App2Click ==
    /\ \E cr, hasLink \in BOOLEAN :
          IF ~cr \/ ~hasLink
             THEN /\ last_gets' = {}
                  /\ auth_status' = [auth_status EXCEPT !["app2"] = "none"]
                  /\ messages' = <<Msg("error", "Please enter credentials and link", 0)>>
                  /\ UNCHANGED issued
             ELSE \E resp \in TokenResponses :
                  LET token == get_token(resp)
                      status == IF resp.outcome = "ok" THEN "ok" ELSE "failed"
                  IN /\ AfterExchange("app2", resp)
                     /\ IF ~Truthy(token)
                           THEN /\ last_gets' = {}
                                /\ messages' = <<Msg("error", "Invalid credentials", 0)>>
                           ELSE \E hasId \in BOOLEAN :
                                IF ~hasId
                                   THEN /\ last_gets' = {}
                                        /\ messages' = <<Msg("error", "Invalid Spotify link", 0)>>
                                   ELSE \E tab \in {"single", "playlist"} :
                                        \E more \in (IF tab = "single" THEN {FALSE} ELSE BOOLEAN) :
                                        /\ messages' = <<>>
                                        /\ last_gets' =
                                             IF tab = "single"
                                                THEN {Get("app2", "audio-features", token, status),
                                                      Get("app2", "tracks", token, status)}
                                                ELSE {Get("app2", "playlist-tracks", token, status)}
                                                     \cup (IF more
                                                              THEN {Get("app2", "audio-features-bulk",
                                                                        token, status)}
                                                              ELSE {})
    /\ last_post' = None
    /\ UNCHANGED <<session_token, query_code, creds, rerun_pending, fetcher_pc,
                   fetcher_token, failed_codes>>
    /\ UNCHANGED <<pagesVars, batchVars, extractVars, moreVars>>

\* ---- src/spotify_metadata.py ----------------------------------------
\* Lines 17-21: the constructor; when _authenticate raises there is no object.
FetcherConstruct ==
    /\ fetcher_pc = "new"
    /\ \E resp \in TokenResponses :
          LET r == Authenticate(resp)
          IN /\ AfterExchange("fetcher", resp)
             /\ fetcher_token' = r.token
             /\ fetcher_pc' = IF r.raised THEN "raised" ELSE "ready"
    /\ last_gets' = {}
    /\ last_post' = None
    /\ UNCHANGED <<session_token, query_code, creds, rerun_pending, failed_codes,
                   messages>>
    /\ UNCHANGED <<pagesVars, batchVars, extractVars, moreVars>>

\* Lines 56-70, 91-105, 135-149, 163-177: the GET of get_track, get_album,
\* get_artist and get_playlist, called on a constructed object.
FetcherGet ==
    /\ fetcher_pc = "ready"
    /\ \E endpoint \in {"tracks", "albums", "artists", "playlists"} :
          last_gets' = {Get("fetcher", endpoint, fetcher_token, auth_status["fetcher"])}
    /\ last_post' = None
    /\ UNCHANGED <<session_token, query_code, creds, rerun_pending, fetcher_pc,
                   fetcher_token, auth_status, issued, failed_codes,
                   messages>>
    /\ UNCHANGED <<pagesVars, batchVars, extractVars, moreVars>>

InitAuth ==
    /\ session_token = None
    /\ query_code = None
    /\ creds = FALSE
    /\ rerun_pending = FALSE
    /\ fetcher_pc = "new"
    /\ fetcher_token = None
    /\ last_gets = {}
    /\ auth_status = [c \in Clients |-> "none"]
    /\ issued = [c \in Clients |-> {}]
    /\ last_post = None
    /\ failed_codes = {}
    /\ messages = <<>>
    /\ IdlePages
    /\ IdleBatch
    /\ IdleExtract
    /\ IdleMore

NextAuth == AppRun \/ AppPageLoad \/ App2Click \/ FetcherConstruct \/ FetcherGet

SpecAuth == InitAuth /\ [][NextAuth]_vars

(***************************************************************************)
(* Claims about authentication.                                            *)
(***************************************************************************)
\* C9: every resource GET carries a token that the token endpoint gave its
\* sender in a successful exchange, and is sent while the sender's latest
\* exchange stands: none before any exchange, none after a failed exchange
\* (non-2xx, unparseable body, no access_token), none after logout.
C9_NoGetWithoutToken ==
    \A g \in last_gets :
        /\ IsSome(g.token)
        /\ g.token[1] \in issued[g.client]
        /\ g.status = "ok"

\* C9 witness: app.py sent a GET under its token after app2.py's exchange
\* and the fetcher's had failed.
C9_Witness ==
    /\ \E g \in last_gets : g.client = "app" /\ g.endpoint = "tracks"
    /\ auth_status["app2"] = "failed"
    /\ fetcher_pc = "raised"


\* C11: a call of an extractor with a kind it does not handle returns the
\* invalid-link error for every link: it returns, without an ID, and it does
\* not raise.
C11_UnhandledKindIsInvalidLink ==
    (ex_pc # "call" /\ ex_kind \notin HandledKinds(ex_app))
        => (ex_pc = "returned" /\ ex_result = None)

(***************************************************************************)
(* SpotifyMetadataFetcher.get_track, get_album, get_artist, get_playlist   *)
(* (src/spotify_metadata.py:56-207).                                       *)
(***************************************************************************)
MaxInputParts == 4
MaxArtists == 2
MaxImages == 2
MaxGenres == 2
MaxItems == 3

\* A key of a JSON object: missing, holding null, or holding a value.
Absent == [st |-> "absent", v |-> <<>>]
Null == [st |-> "null", v |-> <<>>]
Val(v) == [st |-> "value", v |-> v]

\* What evaluating a Python expression does: raise, or give a value.
Raise == [raised |-> TRUE, v |-> <<>>]
Ok(v) == [raised |-> FALSE, v |-> v]

\* d.get(key): None for a missing key, else what the key holds.
DictGet(f) == IF f.st = "value" THEN Some(f.v) ELSE None

\* d.get(key, default): the default for a missing key only.
DictGetDefault(f, default) ==
    CASE f.st = "absent" -> Some(default)
      [] f.st = "null" -> None
      [] f.st = "value" -> Some(f.v)

\* d[key]: KeyError for a missing key.
DictIndex(f) == IF f.st = "absent" THEN Raise ELSE Ok(DictGet(f))

\* Mutant: the last image is taken instead of the first.
FirstUrl_Last(x) == IF x = None \/ x[1] = <<>> THEN None ELSE Some(x[1][Len(x[1])])

\* x[0]['url'] if x else None, for x None or a list of image objects.
FirstUrl(x) == IF x = None \/ x[1] = <<>> THEN None ELSE Some(x[1][1])

\* ', '.join(names) for a list of strings.
RECURSIVE Join(_)
Join(names) ==
    IF names = <<>> THEN <<>>
    ELSE IF Len(names) = 1 THEN names[1]
    ELSE names[1] \o <<",", " ">> \o Join(Tail(names))

\* ', '.join(x): TypeError when x is None.
JoinField(x) == IF x = None THEN Raise ELSE Ok(Some(Join(x[1])))

DigitChars == <<"0", "1", "2", "3", "4", "5", "6", "7", "8", "9">>

\* str(n) for n >= 0.
RECURSIVE Str(_)
Str(n) == IF n < 10 THEN <<DigitChars[n + 1]>>
          ELSE Str(n \div 10) \o <<DigitChars[(n % 10) + 1]>>

\* f"{n:02d}" for n >= 0: padded with zeros to at least two digits.
Pad02(n) == IF n < 10 THEN <<"0">> \o Str(n) ELSE Str(n)

\* Mutant: the seconds are written without the padding.
DurationFormatted_NoPad(ms) ==
    Str((ms \div 1000) \div 60) \o <<":">> \o Str((ms \div 1000) % 60)

\* f"{ms // 1000 // 60}:{(ms // 1000) % 60:02d}"
\* (src/spotify_metadata.py:81,115,188 and src/app.py:203).
DurationFormatted(ms) ==
    Str((ms \div 1000) \div 60) \o <<":">> \o Pad02((ms \div 1000) % 60)

\* One element of ['tracks']['items']: of a playlist an item whose track is
\* null or a track object, of an album a track object.  A track object is
\* modelled by its id.
Item(track) == [track |-> track]

\* for item in playlist['tracks']['items']: if item['track']: tracks.append(..)
\* (src/spotify_metadata.py:180-193).
HasTrack(item) == Truthy(item.track)

PlaylistTracks(items) ==
    LET kept == SelectSeq(items, HasTrack)
    IN [i \in 1..Len(kept) |-> [id |-> kept[i].track[1]]]

\* for track in album['tracks']['items']: tracks.append(..)
\* (src/spotify_metadata.py:109-119).
AlbumTracks(items) == [i \in 1..Len(items) |-> [id |-> items[i].track[1]]]

\* The dict get_track returns (src/spotify_metadata.py:75-89); images is
\* track['album']['images'].
FlattenTrack(t) ==
    LET images == DictIndex(t.images)
    IN IF images.raised THEN Raise
       ELSE Ok([artists |-> Join(t.artists),
                duration_ms |-> t.duration_ms,
                duration_formatted |-> DurationFormatted(t.duration_ms),
                album_image |-> FirstUrl(images.v)])

\* The dict get_album returns (src/spotify_metadata.py:108-133).
FlattenAlbum(a) ==
    LET genres == JoinField(DictGetDefault(a.genres, <<>>))
        images == DictIndex(a.images)
    IN IF genres.raised \/ images.raised THEN Raise
       ELSE Ok([artists |-> Join(a.artists),
                total_tracks |-> a.tracks.total,
                label |-> DictGet(a.label),
                genres |-> genres.v,
                album_image |-> FirstUrl(images.v),
                tracks |-> AlbumTracks(a.tracks.items)])

\* The dict get_artist returns (src/spotify_metadata.py:153-161).
FlattenArtist(a) ==
    LET genres == JoinField(DictGetDefault(a.genres, <<>>))
        images == DictIndex(a.images)
    IN IF genres.raised \/ images.raised THEN Raise
       ELSE Ok([genres |-> genres.v,
                artist_image |-> FirstUrl(images.v)])

\* The dict get_playlist returns (src/spotify_metadata.py:179-207).
FlattenPlaylist(p) ==
    LET images == DictIndex(p.images)
    IN IF images.raised THEN Raise
       ELSE Ok([total_tracks |-> p.tracks.total,
                description |-> DictGetDefault(p.description, <<>>),
                playlist_image |-> FirstUrl(images.v),
                tracks |-> PlaylistTracks(p.tracks.items)])

Flatten(kind, entity) ==
    CASE kind = "track" -> FlattenTrack(entity)
      [] kind = "album" -> FlattenAlbum(entity)
      [] kind = "artist" -> FlattenArtist(entity)
      [] kind = "playlist" -> FlattenPlaylist(entity)

\* <kind>_id = self._extract_id(<kind>_url_or_id, "<kind>") or <kind>_url_or_id
\* (src/spotify_metadata.py:66,101,145,173).
ResolveId(input, kind) ==
    LET r == ExtractIdFetcher(input, kind).result
    IN IF Truthy(r) THEN r[1] ELSE input

\* The ID in the path of the GET the method sends, if it sends one.
RequestFor(input, kind) == Some(ResolveId(input, kind))

\* requests.get and raise_for_status: a 2xx answer, or an exception.
FmOutcomes == {"ok", "error"}

\* One call of get_<kind>: the ID, the GET, raise_for_status, the dict.
FetcherCall ==
    /\ fm_pc = "call"
    /\ fm_request' = RequestFor(fm_input, fm_kind)
    /\ \E outcome \in FmOutcomes :
          LET r == IF fm_request' = None \/ outcome = "error" THEN Raise
                   ELSE Flatten(fm_kind, fm_entity)
          IN /\ fm_outcome' = outcome
             /\ fm_pc' = IF r.raised THEN "raised" ELSE "returned"
             /\ fm_record' = IF r.raised THEN None ELSE Some(r.v)
    /\ UNCHANGED <<fm_kind, fm_input, fm_srv_items, fm_entity>>
    /\ UNCHANGED <<pagesVars, batchVars, extractVars, authVars, soVars, csvVars,
                   tabVars, messages>>

\* ['tracks'] as the server embeds it in an album or a playlist: the first
\* shown items of all, the total, and whether a next link follows.
Embedded(all, shown) ==
    [items |-> SubSeq(all, 1, shown), total |-> Len(all), next |-> shown < Len(all)]

\* An entity with every key present.
PlainEntity ==
    [artists |-> << <<"a">> >>,
     images |-> Val(<< <<"u", "1">> >>),
     genres |-> Val(<<>>),
     label |-> Val(<<"l">>),
     description |-> Val(<<"d">>),
     duration_ms |-> 0,
     tracks |-> Embedded(<<>>, 0)]

\* A string that is no bare ID: it has a character outside [a-zA-Z0-9].
IsLink(s) == \E i \in 1..Len(s) : s[i] \notin AlnumChars

\* Calls with every input of up to MaxInputParts pieces: bare IDs, links of
\* the requested kind, links of another kind and strings that are neither.
InitFetcherId ==
    /\ fm_kind \in Kinds
    /\ \E n \in 0..MaxInputParts : \E parts \in [1..n -> LinkParts] :
          fm_input = LinkOf(parts, fm_kind)
    /\ fm_srv_items = <<>>
    /\ fm_entity = PlainEntity
    /\ fm_pc = "call"
    /\ fm_request = None
    /\ fm_outcome = "none"
    /\ fm_record = None
    /\ messages = <<>>
    /\ IdlePages
    /\ IdleBatch
    /\ IdleExtract
    /\ IdleAuth
    /\ IdleSo
    /\ IdleCsv
    /\ IdleTab

NextFetcherCall == FetcherCall

SpecFetcherId == InitFetcherId /\ [][NextFetcherCall]_vars

\* C12: a link that does not match the pattern of the requested kind is an
\* error of get_<kind>: the call raises and sends no resource request.
C12_NoMatchNoRequest ==
    (fm_pc \notin {"idle", "call"} /\ IsLink(fm_input)
       /\ Search(PatternLiteral(fm_kind), fm_input) = None)
        => (fm_pc = "raised" /\ fm_request = None)

(***************************************************************************)
(* The single-resource fetches of the front ends (src/app.py:70-127,       *)
(* src/app2.py:34-56).                                                     *)
(***************************************************************************)
MaxResourceIds == 2

SingleFetches ==
    {"app.get_track_details", "app.get_album_details", "app.get_artist_details",
     "app.get_playlist_details", "app.get_user_profile",
     "app2.get_audio_features", "app2.get_track_details"}

\* url = f"https://api.spotify.com/v1/<path>/{id}"
PathOf(fn) ==
    CASE fn = "app.get_track_details" -> "tracks"
      [] fn = "app.get_album_details" -> "albums"
      [] fn = "app.get_artist_details" -> "artists"
      [] fn = "app.get_playlist_details" -> "playlists"
      [] fn = "app.get_user_profile" -> "me"
      [] fn = "app2.get_audio_features" -> "audio-features"
      [] fn = "app2.get_track_details" -> "tracks"

\* The text of st.error in the except clause.
ErrorText(fn) ==
    CASE fn = "app.get_track_details" -> "Error fetching track"
      [] fn = "app.get_album_details" -> "Error fetching album"
      [] fn = "app.get_artist_details" -> "Error fetching artist"
      [] fn = "app.get_playlist_details" -> "Error fetching playlist"
      [] fn = "app.get_user_profile" -> "Error fetching user profile"
      [] fn = "app2.get_audio_features" -> "Error while fetching audio features"
      [] fn = "app2.get_track_details" -> "Error fetching track details"

\* Whether the call of get(url, headers=headers) stands inside the try:
\* in get_audio_features it is line 37, before the try of line 38.
GetInsideTry(fn) == fn # "app2.get_audio_features"

\* What the GET meets: a 2xx answer with a JSON body, an exception of
\* requests.get, a non-2xx status, or a 2xx answer whose body is not JSON.
FetchOutcomes == {"ok", "transport_error", "http_error", "bad_json"}

\* One call of a single-resource fetch.
FetchOne ==
    /\ so_pc = "call"
    /\ so_requests' = Append(so_requests,
                             [path |-> PathOf(so_fn), id |-> so_id, token |-> so_token])
    /\ \E outcome \in FetchOutcomes :
          /\ so_outcome' = outcome
          /\ IF outcome = "transport_error" /\ ~GetInsideTry(so_fn)
                THEN /\ so_pc' = "raised"
                     /\ so_result' = None
                     /\ messages' = messages
                ELSE /\ so_pc' = "returned"
                     /\ so_result' = IF outcome = "ok" THEN Some(so_id) ELSE None
                     /\ messages' = IF outcome = "ok" THEN messages
                                    ELSE Append(messages, Msg("error", ErrorText(so_fn), 0))
    /\ UNCHANGED <<so_fn, so_token, so_id>>
    /\ UNCHANGED <<pagesVars, batchVars, extractVars, authVars, fmVars, csvVars,
                   tabVars>>

InitFetchOne ==
    /\ so_fn \in SingleFetches
    /\ so_token \in 1..MaxTokens
    /\ so_id \in IF so_fn = "app.get_user_profile" THEN {0} ELSE 1..MaxResourceIds
    /\ so_pc = "call"
    /\ so_requests = <<>>
    /\ so_outcome = "none"
    /\ so_result = None
    /\ messages = <<>>
    /\ IdlePages
    /\ IdleBatch
    /\ IdleExtract
    /\ IdleAuth
    /\ IdleFm
    /\ IdleCsv
    /\ IdleTab

NextFetchOne == FetchOne

SpecFetchOne == InitFetchOne /\ [][NextFetchOne]_vars

\* C13: every single-resource fetch sends exactly one GET per call and, on a
\* transport failure or a non-2xx status, returns the error outcome (None,
\* with its error message) instead of raising.
C13_OneGetErrorReturned ==
    so_pc \notin {"idle", "call"}
        => /\ Len(so_requests) = 1
           /\ so_outcome \in {"transport_error", "http_error"}
                 => /\ so_pc = "returned"
                    /\ so_result = None
                    /\ messages = <<Msg("error", ErrorText(so_fn), 0)>>

(***************************************************************************)
(* Claims about the session of app.py.                                     *)
(***************************************************************************)
\* The session of app.py by itself: script runs and page loads.
NextApp == AppRun \/ AppPageLoad

SpecApp == InitAuth /\ [][NextApp]_vars

\* A run that exchanged the code of the query string successfully.
ExchangeSucceeded ==
    /\ session_token = None
    /\ IsSome(session_token')
    /\ last_post' = query_code
    /\ IsSome(query_code)
    /\ auth_status'["app"] = "ok"
    /\ session_token'[1] \in issued'["app"]

\* A run in which Logout was clicked.
LoggedOut == session_token' = None /\ auth_status'["app"] = "logged_out"

\* A page load: the state of a new session.
NewSession == session_token' = None /\ auth_status'["app"] = "none"

\* The messages of a failed link extraction and of a failed resource fetch
\* of a tab.
TabErrors ==
    {Msg("error", "Invalid Spotify link", 0), Msg("error", "Error fetching", 0)}

\* C14: the token of the session changes only when a code exchange succeeds
\* (set) and at logout (cleared), a page load starting a new session; a run
\* of app.py that reports a failed extraction or a failed fetch keeps the
\* token it had, and the next run can serve a click again.
C14_ErrorsKeepToken ==
    [][/\ session_token' # session_token
            => (ExchangeSucceeded \/ LoggedOut \/ NewSession)
       /\ (\E i \in 1..Len(messages') : messages'[i] \in TabErrors)
            => /\ session_token' = session_token
               /\ IsSome(session_token')
               /\ ~rerun_pending']_vars

\* A tab reported a failed fetch, the session still holds its token.
C14_Witness ==
    /\ Msg("error", "Error fetching", 0) \in {messages[i] : i \in 1..Len(messages)}
    /\ IsSome(session_token)
    /\ \E g \in last_gets : g.client = "app" /\ g.endpoint = "tracks"
    /\ ~rerun_pending

\* C15: a code whose exchange has failed is not sent to the token endpoint
\* again in the same session.
C15_FailedCodeNotResubmitted ==
    [][IsSome(last_post') => last_post'[1] \notin failed_codes]_vars

(***************************************************************************)
(* Claims about the dicts get_album and get_playlist return.               *)
(***************************************************************************)
\* The collections of up to MaxItems items: the track of item i is i; an
\* item of a playlist may have a null track.
Collections(kind) ==
    {all \in UNION {[1..n -> {Item(None)} \cup {Item(Some(k)) : k \in 1..MaxItems}] :
                       n \in 0..MaxItems} :
        \A i \in 1..Len(all) :
            /\ IsSome(all[i].track) => all[i].track[1] = i
            /\ kind = "album" => IsSome(all[i].track)}

\* Calls of get_album and get_playlist with an ID, on a collection of which
\* the server embeds the first page: the first limit items.
InitTrackList ==
    /\ fm_kind \in {"album", "playlist"}
    /\ fm_input = <<"x", "7">>
    /\ fm_srv_items \in Collections(fm_kind)
    /\ \E limit \in 1..MaxItems :
          fm_entity = [PlainEntity EXCEPT
                          !.tracks = Embedded(fm_srv_items, Min(limit, Len(fm_srv_items)))]
    /\ fm_pc = "call"
    /\ fm_request = None
    /\ fm_outcome = "none"
    /\ fm_record = None
    /\ messages = <<>>
    /\ IdlePages
    /\ IdleBatch
    /\ IdleExtract
    /\ IdleAuth
    /\ IdleSo
    /\ IdleCsv
    /\ IdleTab

SpecTrackList == InitTrackList /\ [][NextFetcherCall]_vars

\* C16: the 'tracks' list get_playlist (get_album) returns has one entry for
\* every item of the collection whose track is not null, in order; its length
\* is the total minus the items with a null track.
C16_AllTracksListed ==
    (fm_pc = "returned" /\ fm_kind \in {"album", "playlist"})
        => LET tracks == fm_record[1].tracks
               want == SelectSeq(fm_srv_items, HasTrack)
               nulls == Cardinality({i \in 1..Len(fm_srv_items) : ~HasTrack(fm_srv_items[i])})
           IN /\ Len(tracks) = Len(want)
              /\ \A i \in 1..Len(want) : tracks[i].id = want[i].track[1]
              /\ Len(tracks) = fm_record[1].total_tracks - nulls

(***************************************************************************)
(* Claims about the flattening of an entity.                               *)
(***************************************************************************)
ArtistNames == {<<"a">>, <<"b", "c">>}

ImageUrl(i) == <<"u", DigitChars[i + 1]>>

GenreName(i) == <<"g", DigitChars[i + 1]>>

\* The lists of up to MaxImages images and of up to MaxGenres genres.
ImageLists == {[i \in 1..n |-> ImageUrl(i)] : n \in 0..MaxImages}

GenreLists == {[i \in 1..n |-> GenreName(i)] : n \in 0..MaxGenres}

\* An optional key: missing, null, or one of the given values.
Optional(values) == {Absent, Null} \cup {Val(v) : v \in values}

\* The entities a resource GET of a kind is answered with: the keys the
\* method of the kind reads vary, the others are those of PlainEntity.
Entities(kind) ==
    LET artists == IF kind \in {"track", "album"}
                      THEN UNION {[1..n -> ArtistNames] : n \in 0..MaxArtists}
                      ELSE {PlainEntity.artists}
        images == Optional(ImageLists)
        genres == IF kind \in {"album", "artist"}
                     THEN Optional(GenreLists)
                     ELSE {PlainEntity.genres}
        label == IF kind = "album" THEN Optional({<<"l">>}) ELSE {PlainEntity.label}
        description == IF kind = "playlist" THEN Optional({<<"d">>})
                       ELSE {PlainEntity.description}
    IN {[PlainEntity EXCEPT !.artists = a, !.images = i, !.genres = g,
                            !.label = l, !.description = d] :
           a \in artists, i \in images, g \in genres, l \in label, d \in description}

\* Calls of the four methods with an ID, the server answering with every
\* entity of Entities.
InitFlatten ==
    /\ fm_kind \in Kinds
    /\ fm_input = <<"x", "7">>
    /\ fm_srv_items = <<>>
    /\ fm_entity \in Entities(fm_kind)
    /\ fm_pc = "call"
    /\ fm_request = None
    /\ fm_outcome = "none"
    /\ fm_record = None
    /\ messages = <<>>
    /\ IdlePages
    /\ IdleBatch
    /\ IdleExtract
    /\ IdleAuth
    /\ IdleSo
    /\ IdleCsv
    /\ IdleTab

SpecFlatten == InitFlatten /\ [][NextFetcherCall]_vars

\* An optional key that is missing or null.
Missing(f) == f.st \in {"absent", "null"}

\* A field that holds null or the empty string.
Blank(x) == x \in {None, Some(<<>>)}

\* C17: whenever the server answers 2xx, the method returns a dict, and a
\* missing or null images / genres / label / description gives a null or
\* empty field.
C17_MissingOptionalDegrades ==
    (fm_pc \notin {"idle", "call"} /\ fm_outcome = "ok")
        => /\ fm_pc = "returned"
           /\ LET r == fm_record[1]
                  ent == fm_entity
              IN /\ Missing(ent.images) =>
                       CASE fm_kind \in {"track", "album"} -> r.album_image = None
                         [] fm_kind = "artist" -> r.artist_image = None
                         [] fm_kind = "playlist" -> r.playlist_image = None
                 /\ (fm_kind \in {"album", "artist"} /\ Missing(ent.genres)) => Blank(r.genres)
                 /\ (fm_kind = "album" /\ Missing(ent.label)) => Blank(r.label)
                 /\ (fm_kind = "playlist" /\ Missing(ent.description)) => Blank(r.description)

\* The number of characters before name k of the joined names.
RECURSIVE Offset(_, _)
Offset(names, k) ==
    IF k = 1 THEN 0 ELSE Offset(names, k - 1) + Len(names[k - 1]) + 2

\* C18: get_track gives the artists field "" for an empty artist list, and
\* for a non-empty one the names in list order with ", " between them; the
\* image field is null for an empty image list and else the URL of the first
\* image.
C18_ArtistsJoinedFirstImage ==
    (fm_pc = "returned" /\ fm_kind = "track")
        => LET r == fm_record[1]
               names == fm_entity.artists
               n == Len(names)
               images == fm_entity.images
           IN /\ n = 0 => r.artists = <<>>
              /\ n > 0 => Len(r.artists) = Offset(names, n) + Len(names[n])
              /\ \A k \in 1..n :
                    LET at == Offset(names, k)
                    IN /\ SubSeq(r.artists, at + 1, at + Len(names[k])) = names[k]
                       /\ k > 1 => SubSeq(r.artists, at - 1, at) = <<",", " ">>
              /\ (images.st = "value" /\ images.v = <<>>) => r.album_image = None
              /\ (images.st = "value" /\ images.v # <<>>)
                    => r.album_image = Some(images.v[1])

\* A track with two artists and two images has been flattened.
C18_Witness ==
    /\ fm_pc = "returned"
    /\ fm_kind = "track"
    /\ fm_entity.artists = << <<"a">>, <<"b", "c">> >>
    /\ fm_entity.images = Val(<<ImageUrl(1), ImageUrl(2)>>)
    /\ fm_record[1].artists = <<"a", ",", " ", "b", "c">>
    /\ fm_record[1].album_image = Some(<<"u", "1">>)

(***************************************************************************)
(* Claims about duration_formatted.                                        *)
(***************************************************************************)
MaxSeconds == 3700

\* The milliseconds tried within a second: its first, its second, one in
\* the middle and its last.
MsRemainders == {0, 1, 500, 999}

\* Calls of get_track with an ID, for a track of every duration of up to
\* MaxSeconds seconds and a remainder of MsRemainders.
InitDuration ==
    /\ fm_kind = "track"
    /\ fm_input = <<"x", "7">>
    /\ fm_srv_items = <<>>
    /\ \E s \in 0..MaxSeconds, ms \in MsRemainders :
          fm_entity = [PlainEntity EXCEPT !.duration_ms = 1000 * s + ms]
    /\ fm_pc = "call"
    /\ fm_request = None
    /\ fm_outcome = "none"
    /\ fm_record = None
    /\ messages = <<>>
    /\ IdlePages
    /\ IdleBatch
    /\ IdleExtract
    /\ IdleAuth
    /\ IdleSo
    /\ IdleCsv
    /\ IdleTab

SpecDuration == InitDuration /\ [][NextFetcherCall]_vars

\* The characters of a string are decimal digits.
IsDigits(chars) ==
    \A i \in 1..Len(chars) : \E d \in 0..9 : chars[i] = DigitChars[d + 1]

\* The number a string of decimal digits denotes.
RECURSIVE ParseInt(_)
ParseInt(chars) ==
    IF chars = <<>> THEN 0
    ELSE LET n == Len(chars)
             d == CHOOSE d \in 0..9 : chars[n] = DigitChars[d + 1]
         IN 10 * ParseInt(SubSeq(chars, 1, n - 1)) + d

\* C19: duration_formatted is M:SS with, for s = floor(duration_ms / 1000),
\* M = floor(s / 60) in decimal (not wrapped at 60) and SS = s mod 60 in
\* exactly two digits, so SS is in 00..59 and 60 * M + SS = s.
C19_DurationIsMinutesSeconds ==
    (fm_pc = "returned" /\ fm_kind = "track")
        => LET text == fm_record[1].duration_formatted
               s == fm_record[1].duration_ms \div 1000
               colons == {i \in 1..Len(text) : text[i] = ":"}
           IN /\ Cardinality(colons) = 1
              /\ LET p == CHOOSE i \in colons : TRUE
                     M == SubSeq(text, 1, p - 1)
                     SS == SubSeq(text, p + 1, Len(text))
                 IN /\ Len(M) >= 1 /\ IsDigits(M)
                    /\ Len(M) > 1 => M[1] # "0"
                    /\ Len(SS) = 2 /\ IsDigits(SS)
                    /\ ParseInt(M) = s \div 60
                    /\ ParseInt(SS) = s % 60
                    /\ ParseInt(SS) \in 0..59
                    /\ 60 * ParseInt(M) + ParseInt(SS) = s

\* A track of 61 minutes, 1 second and 999 milliseconds has been formatted.
C19_Witness ==
    /\ fm_pc = "returned"
    /\ fm_record[1].duration_ms = 3661999
    /\ fm_record[1].duration_formatted = <<"6", "1", ":", "0", "1">>

(***************************************************************************)
(* SpotifyMetadataFetcher.save_to_csv (src/spotify_metadata.py:209-229).   *)
(***************************************************************************)
MaxFileParts == 3
MaxCsvTracks == 2

\* s.replace(old, new): every occurrence of old, from the left, without
\* overlap.
RECURSIVE Replace(_, _, _)
Replace(s, old, new) ==
    IF Len(s) < Len(old) THEN s
    ELSE IF SubSeq(s, 1, Len(old)) = old
            THEN new \o Replace(SubSeq(s, Len(old) + 1, Len(s)), old, new)
            ELSE <<Head(s)>> \o Replace(Tail(s), old, new)

\* tracks_filename = filename.replace('.csv', '_tracks.csv')
TracksFilename(filename) ==
    Replace(filename, <<".", "c", "s", "v">>,
            <<"_", "t", "r", "a", "c", "k", "s", ".", "c", "s", "v">>)

\* One file written by to_csv: its name, what its rows are, how many.
Written(name, what, n) == [name |-> name, what |-> what, rows |-> n]

\* if include_tracks and 'tracks' in data and data['tracks']:
SavesTracks(include, tracks) == include /\ tracks.st = "value" /\ Truthy(tracks.v)

\* One call of save_to_csv.
SaveToCsv ==
    /\ csv_pc = "call"
    /\ csv_writes' =
          <<Written(csv_filename, "main", 1)>>
          \o (IF SavesTracks(csv_include, csv_tracks)
                 THEN <<Written(TracksFilename(csv_filename), "tracks", Len(csv_tracks.v))>>
                 ELSE <<>>)
    /\ csv_pc' = "returned"
    /\ UNCHANGED <<csv_filename, csv_tracks, csv_include>>
    /\ UNCHANGED <<pagesVars, batchVars, extractVars, authVars, fmVars, soVars,
                   tabVars, messages>>

\* The pieces of the file names tried.
FileParts == {<<"a">>, <<".", "c", "s", "v">>, <<".", "t", "x", "t">>}

RECURSIVE Concat(_)
Concat(parts) == IF parts = <<>> THEN <<>> ELSE Head(parts) \o Concat(Tail(parts))

\* The track i of data['tracks'].
CsvTrack(i) == [id |-> i]

\* The lists of up to MaxCsvTracks tracks.
CsvTrackLists == {[i \in 1..n |-> CsvTrack(i)] : n \in 0..MaxCsvTracks}

\* Calls with every file name of 1..MaxFileParts pieces, data without the
\* key 'tracks', with null and with a list of 0..MaxCsvTracks tracks, and
\* include_tracks true and false.
InitCsv ==
    /\ \E n \in 1..MaxFileParts : \E parts \in [1..n -> FileParts] :
          csv_filename = Concat(parts)
    /\ csv_tracks \in Optional(CsvTrackLists)
    /\ csv_include \in BOOLEAN
    /\ csv_pc = "call"
    /\ csv_writes = <<>>
    /\ messages = <<>>
    /\ IdlePages
    /\ IdleBatch
    /\ IdleExtract
    /\ IdleAuth
    /\ IdleFm
    /\ IdleSo
    /\ IdleTab

NextCsv == SaveToCsv

SpecCsv == InitCsv /\ [][NextCsv]_vars

\* What the file of a name holds after the call: its latest write.
FileContent(name) ==
    LET ws == {i \in 1..Len(csv_writes) : csv_writes[i].name = name}
    IN IF ws = {} THEN None
       ELSE Some(csv_writes[CHOOSE i \in ws : \A j \in ws : j <= i])

\* C20: after save_to_csv the given file holds the one row of the main
\* record; with include_tracks and a non-empty track list a different file
\* holds one row per track; otherwise only the given file is written.
C20_TracksInSeparateFile ==
    csv_pc = "returned"
        => /\ FileContent(csv_filename) = Some(Written(csv_filename, "main", 1))
           /\ IF SavesTracks(csv_include, csv_tracks)
                 THEN \E i \in 1..Len(csv_writes) :
                         /\ csv_writes[i].name # csv_filename
                         /\ csv_writes[i].what = "tracks"
                         /\ csv_writes[i].rows = Len(csv_tracks.v)
                 ELSE {csv_writes[i].name : i \in 1..Len(csv_writes)} = {csv_filename}

(***************************************************************************)
(* Claims about the authorization code of app.py.                          *)
(***************************************************************************)
\* C21: a run of app.py posts a code only while the session holds no token
\* and has not exchanged a code successfully before (so never a code it has
\* used); the successful run leaves no code in the query string, and a run
\* in which Logout was clicked, like every run after it, posts nothing and
\* leaves the session without a token.
C21_UsedCodeNotResubmitted ==
    [][/\ IsSome(last_post')
            => /\ session_token = None
               /\ auth_status["app"] \notin {"ok", "logged_out"}
       /\ ExchangeSucceeded => query_code' = None
       /\ auth_status'["app"] = "logged_out"
            => /\ last_post' = None
               /\ session_token' = None
               /\ query_code' = None]_vars

\* After a successful exchange and a logout the script has run again: the
\* session holds no token and no code, and asks for the login.
C21_Witness ==
    /\ auth_status["app"] = "logged_out"
    /\ issued["app"] # {}
    /\ session_token = None
    /\ query_code = None
    /\ ~rerun_pending
    /\ last_post = None
    /\ messages = <<Msg("info", "Please enter your credentials and login", 0)>>

(***************************************************************************)
(* The playlist tab of app2.py from the return of get_playlist_tracks to   *)
(* the call of get_audio_features_for_tracks (src/app2.py:195-206).        *)
(***************************************************************************)
MaxTabPages == 2

\* The page sizes of the playlists the tab is run on.
TabPageSizes == {0, 1, 2}

\* What an item of the playlist holds: a track with an id, a null track, or
\* a track whose id is null.
ItemStates == {"ok", "no_track", "no_id"}

\* The id of the track of an item: its number in the playlist's pages.
ItemId(item) == PageLimit * (item[1] - 1) + item[2]

\* track.get('track') and track['track'].get('id') (lines 200-201).
IsValidItem(item) == srv_bad[item] \notin {"no_track", "no_id"}

\* Lines 197-206: what the tab does with the list get_playlist_tracks
\* returned, up to the call of get_audio_features_for_tracks.
TabFilter ==
    /\ tab_pc = "run"
    /\ pt_pc = "returned"
    /\ IF ~(IsSome(pt_result) /\ Truthy(pt_result[1]))
          \* line 197: if playlist_tracks: is false for None and for []
          THEN /\ messages' = Append(messages,
                                     Msg("error", "Failed to fetch playlist tracks", 0))
               /\ tab_pc' = "done"
               /\ UNCHANGED <<valid_tracks, af_pc>>
          ELSE LET valid == SelectSeq(pt_result[1], IsValidItem)
               IN IF valid = <<>>
                     THEN /\ messages' = Append(messages,
                                 Msg("error", "No valid tracks found in the playlist", 0))
                          /\ tab_pc' = "done"
                          /\ UNCHANGED <<valid_tracks, af_pc>>
                     ELSE /\ valid_tracks' = [i \in 1..Len(valid) |-> Track(ItemId(valid[i]))]
                          /\ af_pc' = "call"
                          /\ tab_pc' = "lookup"
                          /\ UNCHANGED messages
    /\ UNCHANGED <<bi, all_features, batch_requests, batch_responses, rows, srv_bad>>
    /\ UNCHANGED <<pagesVars, extractVars, authVars, fmVars, soVars, csvVars>>

\* A click on the button of the playlist tab with credentials, a token and
\* a playlist link, from the call of get_playlist_tracks on (line 195): a
\* playlist of up to MaxTabPages pages with every marking of its items.
InitPlaylistTab ==
    /\ \E n \in 1..MaxTabPages :
          /\ srv_sizes \in [1..n -> TabPageSizes]
          /\ srv_tail \in {NextAbsent, NextNull}
    /\ srv_bad \in [{<<p, k>> : p \in 1..MaxTabPages, k \in 1..2} -> ItemStates]
    /\ \A item \in DOMAIN srv_bad :
          (item[1] > Len(srv_sizes) \/ item[2] > srv_sizes[item[1]]) => srv_bad[item] = "ok"
    /\ url = Some(StartUrl)
    /\ all_tracks = <<>>
    /\ page_requests = <<>>
    /\ last_next = None
    /\ page_outcomes = <<>>
    /\ pt_pc = "loop"
    /\ pt_result = None
    /\ tab_pc = "run"
    /\ messages = <<>>
    /\ IdleBatch
    /\ IdleExtract
    /\ IdleAuth
    /\ IdleFm
    /\ IdleSo
    /\ IdleCsv

NextPlaylistTab == FetchPage \/ TabFilter \/ CallGetAudioFeatures \/ FetchBatch

SpecPlaylistTab == InitPlaylistTab /\ [][NextPlaylistTab]_vars

\* The tab has dealt with the list get_playlist_tracks returned.
TabHandled == tab_pc \in {"done", "lookup"}

FetchFailureReported ==
    \E i \in 1..Len(messages) :
        messages[i] = Msg("error", "Failed to fetch playlist tracks", 0)

\* The ids of the playlist's items that hold a track with an id, in
\* playlist order.
GoodIds ==
    LET good(item) == srv_bad[item] = "ok"
        kept == SelectSeq(ConcatPages(1), good)
    IN [i \in 1..Len(kept) |-> ItemId(kept[i])]

\* C22: in the playlist flow of app2.py the error "Failed to fetch playlist
\* tracks" is reported if and only if some page request failed (so a playlist
\* fetched with zero items is not reported as a fetch failure), and when
\* get_audio_features_for_tracks is called it receives exactly the ids of
\* the items whose track and track id are not null, in playlist order.
C22_FailureIffPageFailed ==
    TabHandled =>
        /\ FetchFailureReported <=> ~NoPageFailed
        /\ af_pc # "idle" => track_ids = GoodIds

\* The part of C22 about the filter alone.
C22_OnlyGoodIdsInOrder ==
    (TabHandled /\ af_pc # "idle") => track_ids = GoodIds

\* A failure is reported whenever a page request failed, and otherwise only
\* for a playlist without items.
C22_FailureOnlyIfFailedOrEmpty ==
    TabHandled =>
        /\ ~NoPageFailed => FetchFailureReported
        /\ (FetchFailureReported /\ NoPageFailed) => ConcatPages(1) = <<>>

=============================================================================
